---- MODULE Spec2Model ----
(***************************************************************************)
(* The Flask example server of 04-WebAPIs/C2-Preliminaries_Running_Flask_  *)
(* WebServer.ipynb: one notebook cell that defines two routes, a global    *)
(* visitor counter, start_server() and stop_server(), and then calls       *)
(* start_server().  The serving loop is the single-threaded development    *)
(* server that webserver.run() enters; it handles one request at a time.   *)
(*                                                                         *)
(* The module also covers the train/test split and the walk-forward        *)
(* forecasting loop of 03-Pandas/Handling_Time_Series_with_Pandas.ipynb    *)
(* (specification LoopSpec), and stop_server() applied in the contexts it  *)
(* can be called from (specification StopSpec).                            *)
(***************************************************************************)
EXTENDS Integers, Sequences, FiniteSets, TLC

\* Bounds of the model.
MaxRequests == 3   \* requests accepted in one run of the server
MaxDay == 2        \* days the wall clock can show
MaxLen == 5        \* rows of the temperature series
MaxTemp == 2       \* distinct temperature readings

\* A server started with threaded=True: two requests can be in their
\* handlers at once.
NumThreads_threaded == 1 + 1

\* webserver.run() is called without threaded= or processes=: the serving
\* loop of the recorded run handles requests in the one calling thread.
NumThreads == 1
Threads == 1..NumThreads

\* The paths a client may ask for; "/nope" stands for any unregistered path.
Paths == {"/", "/testNYU", "/nope"}

VARIABLES
    serverState,      \* "Stopped" or "Running"
    visitor_counter,  \* the global of line 43
    cell,             \* the notebook cell: "idle", "busy", "returned", "raised"
    portBusy,         \* port 5000 is held by some other process
    sigint,           \* CTRL+C was pressed and not yet seen by the serving loop
    shutdown_signal,  \* the flag the 'werkzeug.server.shutdown' hook sets
    routes,           \* the route table of the webserver object
    inflight,         \* per serving thread, the request it is working on
    log,              \* responses delivered since the latest start_server()
    client,           \* what the latest client attempt got
    today,            \* datetime.date.today()
    counter_at_start, \* visitor_counter on entry to the latest start_server()
    stop_call,        \* the latest stop_server() call: where from, how it ended
    melbourne_temp,   \* the series: rows of date and temp, as loaded
    nSplit,           \* n, the split point
    X_train,          \* the training values, grown by the loop
    X_test,           \* the test values
    dates,            \* the dates of the test rows
    predictions,      \* the forecasts collected by the loop
    iLoop,            \* i, the position of enumerate(X_test)
    model_fit,        \* the data the latest fitted model was fitted on
    error,            \* the result of the RMSE cell
    loop_pc           \* the cell of the forecasting notebook to run next

serverVars == <<serverState, visitor_counter, cell, portBusy, sigint,
                shutdown_signal, routes, inflight, log, client, today,
                counter_at_start>>

forecastVars == <<melbourne_temp, nSplit, X_train, X_test, dates, predictions,
                  iLoop, model_fit, error, loop_pc>>

vars == <<serverVars, stop_call, forecastVars>>

\* No stop_server() call has been made, or the last one has been dealt with.
NoStopCall == [context |-> "none", error |-> "none"]

\* The forecasting notebook is not being run.
ForecastOff ==
    /\ melbourne_temp = <<>>
    /\ nSplit = 0
    /\ X_train = <<>>
    /\ X_test = <<>>
    /\ dates = <<>>
    /\ predictions = <<>>
    /\ iLoop = 0
    /\ model_fit = <<>>
    /\ error = <<>>
    /\ loop_pc = "off"

\* tmp holds the value that 'visitor_counter += 1' has read.
NoRequest == [route |-> "", stage |-> "none", body |-> <<>>, tmp |-> 0]

Active == {t \in Threads : inflight[t] # NoRequest}
Idle == Active = {}

\* str() of a non-negative integer, one decimal digit per element.
Digit(d) == CASE d = 0 -> "0" [] d = 1 -> "1" [] d = 2 -> "2" [] d = 3 -> "3"
              [] d = 4 -> "4" [] d = 5 -> "5" [] d = 6 -> "6" [] d = 7 -> "7"
              [] d = 8 -> "8" [] d = 9 -> "9"

RECURSIVE Str(_)
Str(n) == IF n < 10 THEN <<Digit(n)>> ELSE Str(n \div 10) \o <<Digit(n % 10)>>

\* The calendar date shown by the clock on day n of the model.
DateOf(n) ==
    IF n = 1 THEN [year |-> 2017, month |-> 12, day |-> 31]
    ELSE [year |-> 2018, month |-> 1, day |-> n - 1]

\* Zero-padding to width w, as in '%04d' and '%02d'.
RECURSIVE Pad(_, _)
Pad(s, w) == IF Len(s) >= w THEN s ELSE Pad(<<"0">> \o s, w)

\* str() of a date: YYYY-MM-DD.
isoformat(d) ==
    Pad(Str(d.year), 4) \o <<"-">> \o Pad(Str(d.month), 2) \o <<"-">>
        \o Pad(Str(d.day), 2)

\* hello_world with its stop_server() call active.
hello_world_stopping(d) ==
    [counter  |-> visitor_counter,
     body     |-> <<"Hello Panos, it is now ">> \o isoformat(d),
     shutdown |-> TRUE]

\* hello_world putting the visitor count into its greeting.
hello_world_numbered(d) ==
    [counter  |-> visitor_counter,
     body     |-> <<"Hello Panos, it is now ">> \o isoformat(d)
                      \o Str(visitor_counter),
     shutdown |-> FALSE]

\* hello_world counting its own visits as well.
hello_world_visits(d) ==
    [counter  |-> visitor_counter + 1,
     body     |-> <<"Hello Panos, it is now ">> \o isoformat(d),
     shutdown |-> FALSE]

\* The view function of '/': the shutdown call is commented out.
hello_world(d) ==
    [counter  |-> visitor_counter,
     body     |-> <<"Hello Panos, it is now ">> \o isoformat(d),
     shutdown |-> FALSE]

\* hello_nyu reporting the counter without storing the increment.
hello_nyu_lost_update(c) ==
    [counter  |-> c,
     body     |-> <<"Hello! You are visitor #">> \o Str(c + 1),
     shutdown |-> FALSE]

\* hello_nyu adding 2 per visit.
hello_nyu_by_two(c) ==
    [counter  |-> c + 2,
     body     |-> <<"Hello! You are visitor #">> \o Str(c + 2),
     shutdown |-> FALSE]

\* The view function of '/testNYU': the shutdown call is commented out.
hello_nyu(c) ==
    [counter  |-> c + 1,
     body     |-> <<"Hello! You are visitor #">> \o Str(c + 1),
     shutdown |-> FALSE]

\* A path with no registered route: the framework answers 404.
not_found ==
    [counter  |-> visitor_counter,
     body     |-> <<"404 Not Found">>,
     shutdown |-> FALSE]

\* The second decorator written with a lower-case path.
url_map_typo == [p \in {"/", "/nope"} |->
                   IF p = "/" THEN "hello_world" ELSE "hello_nyu"]

\* The route table built by the two @webserver.route decorators.
url_map == [p \in {"/", "/testNYU"} |->
              IF p = "/" THEN "hello_world" ELSE "hello_nyu"]

\* No webserver object exists before the cell has run.
NoRoutes == [p \in {} |-> ""]

IsNyu(p) == p \in DOMAIN routes /\ routes[p] = "hello_nyu"

\* The response to a request for p; c is the counter value the handler read.
view(p, c) ==
    IF p \notin DOMAIN routes THEN not_found
    ELSE IF routes[p] = "hello_world" THEN hello_world(DateOf(today))
    ELSE hello_nyu(c)

Init ==
    /\ serverState = "Stopped"
    /\ visitor_counter = 0
    /\ cell = "idle"
    /\ portBusy \in BOOLEAN
    /\ sigint = FALSE
    /\ shutdown_signal = FALSE
    /\ routes = NoRoutes
    /\ inflight = [t \in Threads |-> NoRequest]
    /\ log = <<>>
    /\ client = "none"
    /\ today = 1
    /\ counter_at_start = 0
    /\ stop_call = NoStopCall
    /\ ForecastOff

\* start_server() without the reset of line 65.
start_server_no_reset(c) ==
    /\ counter_at_start' = c
    /\ visitor_counter' = c
    /\ log' = <<>>
    /\ IF portBusy
       THEN /\ cell' = "raised"
            /\ serverState' = "Stopped"
       ELSE /\ cell' = "busy"
            /\ serverState' = "Running"
    /\ UNCHANGED <<portBusy, sigint, shutdown_signal, inflight, client, today>>
    /\ UNCHANGED <<stop_call, forecastVars>>

\* start_server() that serves in a background thread and returns at once.
start_server_background(c) ==
    /\ counter_at_start' = c
    /\ visitor_counter' = 0
    /\ log' = <<>>
    /\ IF portBusy
       THEN /\ cell' = "raised"
            /\ serverState' = "Stopped"
       ELSE /\ cell' = "returned"
            /\ serverState' = "Running"
    /\ UNCHANGED <<portBusy, sigint, shutdown_signal, inflight, client, today>>
    /\ UNCHANGED <<stop_call, forecastVars>>

\* start_server() that swallows the bind error and serves all the same.
start_server_bind_unchecked(c) ==
    /\ counter_at_start' = c
    /\ visitor_counter' = 0
    /\ log' = <<>>
    /\ cell' = "busy"
    /\ serverState' = "Running"
    /\ UNCHANGED <<portBusy, sigint, shutdown_signal, inflight, client, today>>
    /\ UNCHANGED <<stop_call, forecastVars>>

\* start_server() that binds first and resets the counter only on success.
start_server_bind_first(c) ==
    /\ counter_at_start' = c
    /\ log' = <<>>
    /\ IF portBusy
       THEN /\ cell' = "raised"
            /\ serverState' = "Stopped"
            /\ visitor_counter' = c
       ELSE /\ cell' = "busy"
            /\ serverState' = "Running"
            /\ visitor_counter' = 0
    /\ UNCHANGED <<portBusy, sigint, shutdown_signal, inflight, client, today>>
    /\ UNCHANGED <<stop_call, forecastVars>>

\* start_server() entered with the counter at c: reset the counter, then
\* bind port 5000 and serve; a bind failure propagates to the caller.
start_server(c) ==
    /\ counter_at_start' = c
    /\ visitor_counter' = 0
    /\ log' = <<>>
    /\ IF portBusy
       THEN /\ cell' = "raised"
            /\ serverState' = "Stopped"
       ELSE /\ cell' = "busy"
            /\ serverState' = "Running"
    /\ UNCHANGED <<portBusy, sigint, shutdown_signal, inflight, client, today>>
    /\ UNCHANGED <<stop_call, forecastVars>>

\* Running the cell: line 43 sets the counter to 0, the definitions are
\* made, and line 74 calls start_server().
RunCell ==
    /\ cell \in {"idle", "returned", "raised"}
    /\ routes' = url_map
    /\ start_server(0)

\* start_server() called again once the cell's definitions exist.
CallStartServer ==
    /\ cell \in {"returned", "raised"}
    /\ UNCHANGED routes
    /\ start_server(visitor_counter)

\* Another process takes or gives up port 5000.
ForeignBind ==
    /\ serverState = "Stopped"
    /\ ~portBusy
    /\ portBusy' = TRUE
    /\ UNCHANGED <<serverState, visitor_counter, cell, sigint, shutdown_signal,
                   routes, inflight, log, client, today, counter_at_start>>
    /\ UNCHANGED <<stop_call, forecastVars>>

ForeignRelease ==
    /\ portBusy
    /\ portBusy' = FALSE
    /\ UNCHANGED <<serverState, visitor_counter, cell, sigint, shutdown_signal,
                   routes, inflight, log, client, today, counter_at_start>>
    /\ UNCHANGED <<stop_call, forecastVars>>

\* A loop that takes connections whether or not the server is up.
Accept_any_state(p) ==
    /\ Active # Threads
    /\ Len(log) + Cardinality(Active) < MaxRequests
    /\ LET t == CHOOSE u \in Threads \ Active :
                    \A v \in Threads \ Active : u <= v IN
         inflight' = [inflight EXCEPT ![t] =
                        [route |-> p, stage |-> "accepted", body |-> <<>>,
                         tmp |-> 0]]
    /\ UNCHANGED <<serverState, visitor_counter, cell, portBusy, sigint,
                   shutdown_signal, routes, log, client, today,
                   counter_at_start>>
    /\ UNCHANGED <<stop_call, forecastVars>>

\* The serving loop accepts a connection when a serving thread is free.
Accept(p) ==
    /\ serverState = "Running"
    /\ Active # Threads
    /\ Len(log) + Cardinality(Active) < MaxRequests
    /\ LET t == CHOOSE u \in Threads \ Active :
                    \A v \in Threads \ Active : u <= v IN
         inflight' = [inflight EXCEPT ![t] =
                        [route |-> p, stage |-> "accepted", body |-> <<>>,
                         tmp |-> 0]]
    /\ UNCHANGED <<serverState, visitor_counter, cell, portBusy, sigint,
                   shutdown_signal, routes, log, client, today,
                   counter_at_start>>
    /\ UNCHANGED <<stop_call, forecastVars>>

\* Nobody listens on port 5000: the connection is refused.
Refuse ==
    /\ serverState = "Stopped"
    /\ ~portBusy
    /\ client' = "refused"
    /\ UNCHANGED <<serverState, visitor_counter, cell, portBusy, sigint,
                   shutdown_signal, routes, inflight, log, today,
                   counter_at_start>>
    /\ UNCHANGED <<stop_call, forecastVars>>

\* hello_nyu reads the global for 'visitor_counter += 1'.
LoadCounter(t) ==
    /\ inflight[t].stage = "accepted"
    /\ IsNyu(inflight[t].route)
    /\ inflight' = [inflight EXCEPT ![t].stage = "loaded",
                                    ![t].tmp = visitor_counter]
    /\ UNCHANGED <<serverState, visitor_counter, cell, portBusy, sigint,
                   shutdown_signal, routes, log, client, today,
                   counter_at_start>>
    /\ UNCHANGED <<stop_call, forecastVars>>

\* The view function of the request runs to its return.
Dispatch(t) ==
    /\ \/ inflight[t].stage = "loaded"
       \/ inflight[t].stage = "accepted" /\ ~IsNyu(inflight[t].route)
    /\ LET r == view(inflight[t].route, inflight[t].tmp) IN
         /\ visitor_counter' = r.counter
         /\ shutdown_signal' = (shutdown_signal \/ r.shutdown)
         /\ inflight' = [inflight EXCEPT ![t].stage = "responding",
                                         ![t].body = r.body]
    /\ UNCHANGED <<serverState, cell, portBusy, sigint, routes, log, client,
                   today, counter_at_start>>
    /\ UNCHANGED <<stop_call, forecastVars>>

\* A loop that handles a single request and leaves, flag or no flag.
Deliver_single_shot(t) ==
    /\ inflight[t].stage = "responding"
    /\ log' = Append(log, [route |-> inflight[t].route,
                           body  |-> inflight[t].body])
    /\ client' = "answered"
    /\ inflight' = [inflight EXCEPT ![t] = NoRequest]
    /\ serverState' = "Stopped"
    /\ cell' = "returned"
    /\ UNCHANGED <<visitor_counter, portBusy, sigint, shutdown_signal, routes,
                   today, counter_at_start>>
    /\ UNCHANGED <<stop_call, forecastVars>>

\* The response is written to the client; the loop then looks at the
\* shutdown flag and leaves if it is set, which lets run() return.
Deliver(t) ==
    /\ inflight[t].stage = "responding"
    /\ log' = Append(log, [route |-> inflight[t].route,
                           body  |-> inflight[t].body])
    /\ client' = "answered"
    /\ inflight' = [inflight EXCEPT ![t] = NoRequest]
    /\ IF shutdown_signal
       THEN /\ serverState' = "Stopped"
            /\ cell' = "returned"
            /\ shutdown_signal' = FALSE
       ELSE UNCHANGED <<serverState, cell, shutdown_signal>>
    /\ UNCHANGED <<visitor_counter, portBusy, sigint, routes, today,
                   counter_at_start>>
    /\ UNCHANGED <<stop_call, forecastVars>>

\* "(Press CTRL+C to quit)": the user interrupts the busy cell.
SendInterrupt ==
    /\ cell = "busy"
    /\ ~sigint
    /\ sigint' = TRUE
    /\ UNCHANGED <<serverState, visitor_counter, cell, portBusy, shutdown_signal,
                   routes, inflight, log, client, today, counter_at_start>>
    /\ UNCHANGED <<stop_call, forecastVars>>

\* The idle serving loop sees the interrupt, closes the socket and returns.
ServeInterrupted ==
    /\ serverState = "Running"
    /\ sigint
    /\ Idle
    /\ serverState' = "Stopped"
    /\ cell' = "returned"
    /\ sigint' = FALSE
    /\ UNCHANGED <<visitor_counter, portBusy, shutdown_signal, routes, inflight,
                   log, client, today, counter_at_start>>
    /\ UNCHANGED <<stop_call, forecastVars>>

\* Midnight passes.
DayTick ==
    /\ today < MaxDay
    /\ today' = today + 1
    /\ UNCHANGED <<serverState, visitor_counter, cell, portBusy, sigint,
                   shutdown_signal, routes, inflight, log, client,
                   counter_at_start>>
    /\ UNCHANGED <<stop_call, forecastVars>>

Next ==
    \/ RunCell
    \/ CallStartServer
    \/ ForeignBind
    \/ ForeignRelease
    \/ \E p \in Paths : Accept(p)
    \/ Refuse
    \/ \E t \in Threads : LoadCounter(t)
    \/ \E t \in Threads : Dispatch(t)
    \/ \E t \in Threads : Deliver(t)
    \/ SendInterrupt
    \/ ServeInterrupted
    \/ DayTick

Spec == Init /\ [][Next]_vars

----------------------------------------------------------------------------
\* stop_server() and the contexts it can be called from.

\* The request environments a handler can see: with or without the
\* development server's shutdown hook.
Environs == {{}, {"werkzeug.server.shutdown"}}

\* stop_server() that shuts the server down by other means when the hook
\* is missing.
stop_server_forced(in_request, environ) ==
    IF ~in_request
    THEN [error |-> "RuntimeError", shutdown |-> FALSE]
    ELSE [error |-> "none", shutdown |-> TRUE]

\* stop_server(): request.environ needs a request context; .get() gives
\* None for a missing key and calling None fails; the hook, when there is
\* one, flags the serving loop to stop.
stop_server(in_request, environ) ==
    IF ~in_request
    THEN [error |-> "RuntimeError", shutdown |-> FALSE]
    ELSE IF "werkzeug.server.shutdown" \notin environ
    THEN [error |-> "TypeError", shutdown |-> FALSE]
    ELSE [error |-> "none", shutdown |-> TRUE]

\* stop_server() called from a notebook cell while nothing is served.
StopFromCell ==
    /\ cell \in {"returned", "raised"}
    /\ stop_call = NoStopCall
    /\ LET r == stop_server(FALSE, {}) IN
         /\ stop_call' = [context |-> "cell", error |-> r.error]
         /\ shutdown_signal' = (shutdown_signal \/ r.shutdown)
    /\ UNCHANGED <<serverState, visitor_counter, cell, portBusy, sigint,
                   routes, inflight, log, client, today, counter_at_start>>
    /\ UNCHANGED forecastVars

\* stop_server() called on the first line of a view function, where the
\* two commented calls stand; an error ends the handler with a 500 response.
StopFromHandler(t, environ) ==
    /\ serverState = "Running"
    /\ inflight[t].stage = "accepted"
    /\ stop_call = NoStopCall
    /\ LET r == stop_server(TRUE, environ) IN
         /\ stop_call' =
                [context |-> IF "werkzeug.server.shutdown" \in environ
                             THEN "handler_hook" ELSE "handler_no_hook",
                 error   |-> r.error]
         /\ shutdown_signal' = (shutdown_signal \/ r.shutdown)
         /\ inflight' =
                IF r.error # "none"
                THEN [inflight EXCEPT
                        ![t].stage = "responding",
                        ![t].body = <<"500 Internal Server Error">>]
                ELSE inflight
    /\ UNCHANGED <<serverState, visitor_counter, cell, portBusy, sigint,
                   routes, log, client, today, counter_at_start>>
    /\ UNCHANGED forecastVars

\* The call is over: its traceback has been shown or its handler has gone on.
StopSeen ==
    /\ stop_call # NoStopCall
    /\ stop_call' = NoStopCall
    /\ UNCHANGED <<serverVars, forecastVars>>

StopNext ==
    \/ Next
    \/ StopFromCell
    \/ \E t \in Threads : \E environ \in Environs : StopFromHandler(t, environ)
    \/ StopSeen

StopSpec == Init /\ [][StopNext]_vars

TypeOK ==
    /\ serverState \in {"Stopped", "Running"}
    /\ visitor_counter \in 0..MaxRequests
    /\ cell \in {"idle", "busy", "returned", "raised"}
    /\ portBusy \in BOOLEAN
    /\ sigint \in BOOLEAN
    /\ shutdown_signal \in BOOLEAN
    /\ DOMAIN routes \subseteq Paths
    /\ \A t \in Threads :
           inflight[t].stage \in {"none", "accepted", "loaded", "responding"}
    /\ Len(log) <= MaxRequests
    /\ today \in 1..MaxDay

----------------------------------------------------------------------------
\* The train/test split and the walk-forward loop of the forecasting notebook.

\* The temp column of a list of rows: .values.reshape(-1,) made a list.
Values(rows) == [k \in 1..Len(rows) |-> rows[k].temp]

\* The index column of a list of rows: .index.values.
IndexOf(rows) == [k \in 1..Len(rows) |-> rows[k].date]

\* The series as loaded: one row per day, in file order, dated by its day.
Series ==
    UNION {{[k \in 1..len |-> [date |-> k, temp |-> f[k]]] :
               f \in [1..len -> 1..MaxTemp]} : len \in 0..MaxLen}

\* ARIMA(data, order=(5,0,0)).fit(): the fitted model is a function of the
\* data alone, kept as that data.
Fit(data) == data

\* model_fit.forecast()[0][0]: the one-step forecast of the value that
\* follows the data the model was fitted on.
Forecast(fit) == [after |-> fit]

\* The notebook has loaded melbourne_temp and fitted the first model on the
\* whole series; the web server plays no part.
LoopInit ==
    /\ serverState = "Stopped"
    /\ visitor_counter = 0
    /\ cell = "idle"
    /\ portBusy = FALSE
    /\ sigint = FALSE
    /\ shutdown_signal = FALSE
    /\ routes = NoRoutes
    /\ inflight = [t \in Threads |-> NoRequest]
    /\ log = <<>>
    /\ client = "none"
    /\ today = 1
    /\ counter_at_start = 0
    /\ stop_call = NoStopCall
    /\ melbourne_temp \in Series
    /\ nSplit = 0
    /\ X_train = <<>>
    /\ X_test = <<>>
    /\ dates = <<>>
    /\ predictions = <<>>
    /\ iLoop = 0
    /\ model_fit = Fit(Values(melbourne_temp))
    /\ error = <<>>
    /\ loop_pc = "loaded"

\* A split whose test part starts one row late.
Split_tail_shifted ==
    /\ loop_pc = "loaded"
    /\ LET size == Len(melbourne_temp)
           cut  == (size * 7) \div 10
           head == SubSeq(melbourne_temp, 1, cut)
           tail == SubSeq(melbourne_temp, cut + 2, size) IN
         /\ nSplit' = cut
         /\ X_train' = Values(head)
         /\ X_test' = Values(tail)
         /\ dates' = IndexOf(tail)
    /\ loop_pc' = "split"
    /\ UNCHANGED <<melbourne_temp, predictions, iLoop, model_fit, error>>
    /\ UNCHANGED <<serverVars, stop_call>>

\* The split cell: n = int(size * 0.7), X_train = the values of [:n],
\* X_test = the values of [n:], dates = the index of [n:].
Split ==
    /\ loop_pc = "loaded"
    /\ LET size == Len(melbourne_temp)
           cut  == (size * 7) \div 10
           head == SubSeq(melbourne_temp, 1, cut)
           tail == SubSeq(melbourne_temp, cut + 1, size) IN
         /\ nSplit' = cut
         /\ X_train' = Values(head)
         /\ X_test' = Values(tail)
         /\ dates' = IndexOf(tail)
    /\ loop_pc' = "split"
    /\ UNCHANGED <<melbourne_temp, predictions, iLoop, model_fit, error>>
    /\ UNCHANGED <<serverVars, stop_call>>

\* The loop cell begins: predictions = [] and enumerate(X_test) at its start.
StartLoop ==
    /\ loop_pc = "split"
    /\ predictions' = <<>>
    /\ iLoop' = 0
    /\ loop_pc' = "loop"
    /\ UNCHANGED <<melbourne_temp, nSplit, X_train, X_test, dates, model_fit,
                   error>>
    /\ UNCHANGED <<serverVars, stop_call>>

\* An iteration that grows the training list before it fits.
Iterate_append_first ==
    /\ loop_pc = "loop"
    /\ iLoop < Len(X_test)
    /\ LET val == X_test[iLoop + 1] IN
         /\ X_train' = Append(X_train, val)
         /\ model_fit' = Fit(X_train')
         /\ predictions' = Append(predictions, Forecast(model_fit'))
    /\ iLoop' = iLoop + 1
    /\ UNCHANGED <<melbourne_temp, nSplit, X_test, dates, error, loop_pc>>
    /\ UNCHANGED <<serverVars, stop_call>>

\* An iteration without X_train.append(val).
Iterate_train_not_grown ==
    /\ loop_pc = "loop"
    /\ iLoop < Len(X_test)
    /\ model_fit' = Fit(X_train)
    /\ predictions' = Append(predictions, Forecast(model_fit'))
    /\ iLoop' = iLoop + 1
    /\ UNCHANGED <<melbourne_temp, nSplit, X_train, X_test, dates, error,
                   loop_pc>>
    /\ UNCHANGED <<serverVars, stop_call>>

\* One iteration of 'for i, val in enumerate(X_test)': fit on X_train,
\* forecast one step, collect the forecast, then append val to X_train.
Iterate ==
    /\ loop_pc = "loop"
    /\ iLoop < Len(X_test)
    /\ LET val == X_test[iLoop + 1] IN
         /\ model_fit' = Fit(X_train)
         /\ predictions' = Append(predictions, Forecast(model_fit'))
         /\ X_train' = Append(X_train, val)
    /\ iLoop' = iLoop + 1
    /\ UNCHANGED <<melbourne_temp, nSplit, X_test, dates, error, loop_pc>>
    /\ UNCHANGED <<serverVars, stop_call>>

\* enumerate(X_test) is exhausted and the RMSE cell runs:
\* mean_squared_error(X_test, predictions) pairs the two lists and refuses
\* lists of different lengths.
ComputeError ==
    /\ loop_pc = "loop"
    /\ iLoop >= Len(X_test)
    /\ error' = IF Len(X_test) = Len(predictions)
                THEN [k \in 1..Len(X_test) |-> <<X_test[k], predictions[k]>>]
                ELSE <<"ValueError">>
    /\ loop_pc' = "done"
    /\ UNCHANGED <<melbourne_temp, nSplit, X_train, X_test, dates, predictions,
                   iLoop, model_fit>>
    /\ UNCHANGED <<serverVars, stop_call>>

LoopNext ==
    \/ Split
    \/ StartLoop
    \/ Iterate
    \/ ComputeError

\* The cells run one after the other, and a running cell keeps going.
LoopSpec == LoopInit /\ [][LoopNext]_vars /\ WF_vars(LoopNext)

----------------------------------------------------------------------------
\* Properties.

\* The number of /testNYU responses among the first i responses of the run.
NyuUpTo(i) == Cardinality({j \in 1..i : log[j].route = "/testNYU"})

NyuServed == \E i \in 1..Len(log) : log[i].route = "/testNYU"

\* C1: within one run the k-th response delivered on /testNYU has the body
\* 'Hello! You are visitor #k', whatever requests to other paths come between.
C1_VisitorNumbers ==
    \A i \in 1..Len(log) :
        log[i].route = "/testNYU" =>
            log[i].body = <<"Hello! You are visitor #">> \o Str(NyuUpTo(i))

C1_Witness ==
    /\ Len(log) = 3
    /\ log[1].route = "/testNYU"
    /\ log[2].route = "/"
    /\ log[3] = [route |-> "/testNYU",
                 body  |-> <<"Hello! You are visitor #", "2">>]

\* C2: once a /testNYU response has been delivered the server is Stopped
\* (so that every later request is refused).
C2_StoppedAfterNyu == NyuServed => serverState = "Stopped"

\* C3: once the first request to '/' or '/testNYU' has been answered the
\* server is stopped and start_server() has returned to the cell.
C3_SingleCallShutdown ==
    (Len(log) >= 1 /\ log[1].route \in {"/", "/testNYU"}) =>
        (serverState = "Stopped" /\ cell = "returned")

C5_ResetOnStart ==
    /\ (/\ cell \in {"busy", "raised"}
        /\ ~NyuServed
        /\ ~(\E t \in Threads : /\ inflight[t].route = "/testNYU"
                                 /\ inflight[t].stage = "responding"))
           => visitor_counter = 0
    /\ \A i \in 1..Len(log) :
           (log[i].route = "/testNYU" /\ NyuUpTo(i) = 1) =>
               log[i].body = <<"Hello! You are visitor #", "1">>

C5_Witness ==
    /\ counter_at_start > 0
    /\ serverState = "Running"
    /\ NyuServed
    /\ visitor_counter = 1

\* C6: at most one request is handled in a run and the counter never
\* exceeds 1.
C6_ExactlyOneRequest == Len(log) <= 1 /\ visitor_counter <= 1

\* C7: while the server is Running the cell that called start_server() is
\* blocked; the call has returned only when the server is Stopped.
C7_BlocksWhileRunning ==
    /\ serverState = "Running" => cell = "busy"
    /\ cell \in {"returned", "raised"} => serverState = "Stopped"

C7_Witness ==
    /\ cell = "returned"
    /\ serverState = "Stopped"
    /\ Len(log) >= 1

StateIsStoppedOrRunning == serverState \in {"Stopped", "Running"}

\* The effect of start_server() binding the port.
EntersRunningByStart ==
    (serverState = "Stopped" /\ serverState' = "Running") =>
        (cell # "busy" /\ cell' = "busy" /\ ~portBusy /\ visitor_counter' = 0)

\* C8 as stated: the state is Stopped or Running, Running is entered only
\* by start_server(), and Running is left only by a shutdown that a route
\* handler triggered; nothing from outside stops the server.
C8_Original ==
    /\ []StateIsStoppedOrRunning
    /\ [][EntersRunningByStart]_vars
    /\ [][(serverState = "Running" /\ serverState' = "Stopped")
             => shutdown_signal]_vars

\* C8 amended: the state is Stopped or Running, Running is entered only by
\* start_server(), and Running is left only by a handler-triggered shutdown
\* or by an interrupt (CTRL+C) of the blocked call; with neither, the
\* server stays Running.
C8_Lifecycle ==
    /\ []StateIsStoppedOrRunning
    /\ [][EntersRunningByStart]_vars
    /\ [][(serverState = "Running" /\ serverState' = "Stopped")
             => (shutdown_signal \/ sigint)]_vars

C8_Witness ==
    /\ serverState = "Stopped"
    /\ cell = "returned"
    /\ ~sigint
    /\ Len(log) >= 1
    /\ counter_at_start > 0

\* C9: a start_server() call made while port 5000 is taken ends with the
\* error raised to the caller and the server Stopped; no step taken while
\* the port is taken makes the server Running.
C9_BindFailurePropagates ==
    /\ [](cell = "raised" => serverState = "Stopped")
    /\ [][portBusy => (serverState' = "Stopped" /\ cell' # "busy")]_vars
    /\ [][(portBusy /\ cell' # cell) => cell' = "raised"]_vars

C9_Witness ==
    /\ cell = "raised"
    /\ portBusy
    /\ serverState = "Stopped"
    /\ counter_at_start > 0

\* The threads whose /testNYU handler has stored its increment and returned.
NyuReturned ==
    {t \in Threads : /\ inflight[t].route = "/testNYU"
                     /\ inflight[t].stage = "responding"}

\* C11: at most one request is in its handler at any time, no two /testNYU
\* responses of a run carry the same visitor number, and the counter
\* accounts for every /testNYU handler that has run in the run.
C11_NoLostIncrement ==
    /\ Cardinality(Active) <= 1
    /\ \A i, j \in 1..Len(log) :
           (i < j /\ log[i].route = "/testNYU" /\ log[j].route = "/testNYU")
               => log[i].body # log[j].body
    /\ visitor_counter = NyuUpTo(Len(log)) + Cardinality(NyuReturned)

C11_Witness ==
    /\ Len(log) = 2
    /\ log[1].route = "/testNYU"
    /\ log[2].route = "/testNYU"
    /\ \E t \in Threads : inflight[t].route = "/testNYU"
                            /\ inflight[t].stage = "loaded"
                            /\ inflight[t].tmp = 2

\* The table the two decorators of the cell register.
RegisteredRoutes == ("/" :> "hello_world") @@ ("/testNYU" :> "hello_nyu")

\* C13: once the cell has run, the route table maps exactly '/' to
\* hello_world and '/testNYU' to hello_nyu, and no step changes it.
C13_RoutesFixed ==
    /\ [](cell # "idle" => routes = RegisteredRoutes)
    /\ [][cell # "idle" => routes' = routes]_vars

C13_Witness ==
    /\ routes = RegisteredRoutes
    /\ serverState = "Stopped"
    /\ cell = "returned"
    /\ counter_at_start > 0
    /\ \E i \in 1..Len(log) : log[i].route = "/nope"

\* The greeting for the date of day n, written out.
Greeting(n) ==
    CASE n = 1 -> <<"Hello Panos, it is now ",
                    "2", "0", "1", "7", "-", "1", "2", "-", "3", "1">>
      [] n = 2 -> <<"Hello Panos, it is now ",
                    "2", "0", "1", "8", "-", "0", "1", "-", "0", "1">>
      [] n = 3 -> <<"Hello Panos, it is now ",
                    "2", "0", "1", "8", "-", "0", "1", "-", "0", "2">>

\* C14: the body that the handler of '/' returns is the fixed greeting
\* followed by the date of the day, whatever the visitor counter and the
\* earlier requests are; every '/' response of a run is such a greeting.
C14_RootBodyFromDateOnly ==
    /\ [][\A t \in Threads :
             (/\ inflight[t].route = "/"
              /\ inflight[t].stage = "accepted"
              /\ inflight'[t].stage = "responding")
                 => inflight'[t].body = Greeting(today)]_vars
    /\ [](\A i \in 1..Len(log) :
             log[i].route = "/" =>
                 \E n \in 1..today : log[i].body = Greeting(n))

C14_Witness ==
    /\ Len(log) = 3
    /\ log[1].route = "/"
    /\ log[2].route = "/testNYU"
    /\ log[3].route = "/"
    /\ log[1].body = log[3].body
    /\ counter_at_start > 0

\* A step in which start_server() is entered with a non-zero counter.
StartStep == cell = "returned" /\ cell' \in {"busy", "raised"}

\* A step in which a /testNYU handler stores its increment.
NyuStep ==
    \E t \in Threads : /\ inflight[t].route = "/testNYU"
                       /\ inflight[t].stage = "loaded"
                       /\ inflight'[t].stage = "responding"

C17_CounterCountsVisits ==
    /\ [](visitor_counter = NyuUpTo(Len(log)) + Cardinality(NyuReturned))
    /\ [](visitor_counter >= 0)
    /\ [][(serverState = "Running" /\ serverState' = "Running")
             => visitor_counter' >= visitor_counter]_vars

C17_Witness ==
    /\ serverState = "Running"
    /\ counter_at_start = 2
    /\ visitor_counter = 1
    /\ Len(log) = 1
    /\ Idle

\* C18 as stated: our server is never Running while another instance holds
\* port 5000, and a server that has run and stopped is not started again.
C18_Original ==
    /\ [](~(serverState = "Running" /\ portBusy))
    /\ [][cell = "returned" => serverState' = "Stopped"]_vars

\* C18 amended: our server is never Running while another instance holds
\* port 5000; a server that has stopped is started again only by a new
\* start_server() call with the port free, and that run begins with the
\* counter at 0 and nothing served.
C18_OneInstance ==
    /\ [](~(serverState = "Running" /\ portBusy))
    /\ [][(serverState = "Stopped" /\ serverState' = "Running") =>
             (/\ ~portBusy /\ ~portBusy'
              /\ cell' = "busy"
              /\ visitor_counter' = 0
              /\ log' = <<>>
              /\ Idle')]_vars

C18_Witness ==
    /\ serverState = "Running"
    /\ cell = "busy"
    /\ counter_at_start > 0
    /\ log = <<>>
    /\ client = "refused"

\* C19: while the server is Stopped no request is in a handler, and a
\* client attempt made then is refused: it adds no response and leaves the
\* counter alone.
C19_StoppedServesNothing ==
    /\ [](serverState = "Stopped" => Idle)
    /\ [][(serverState = "Stopped" /\ client' # client) =>
             (/\ client' = "refused"
              /\ log' = log
              /\ visitor_counter' = visitor_counter
              /\ inflight' = inflight)]_vars

C19_Witness ==
    /\ serverState = "Stopped"
    /\ client = "refused"
    /\ visitor_counter > 0
    /\ Len(log) >= 1

\* C20: after a start_server() call that failed on the taken port the
\* server is Stopped and the counter is 0, whatever it was on entry.
C20_FailedStartResets ==
    cell = "raised" => (serverState = "Stopped" /\ visitor_counter = 0)

C20_Witness ==
    /\ cell = "raised"
    /\ counter_at_start = 2
    /\ visitor_counter = 0
    /\ serverState = "Stopped"

\* C21: a stop_server() call made with no request context, or with a
\* request environment that has no shutdown hook, ends in an error and
\* leaves the server state, the shutdown flag and the counter as they were.
C21_StopWithoutHookFails ==
    /\ [](stop_call.context \in {"cell", "handler_no_hook"}
             => stop_call.error \in {"RuntimeError", "TypeError"})
    /\ [][(stop_call = NoStopCall
             /\ stop_call'.context \in {"cell", "handler_no_hook"})
          => (/\ serverState' = serverState
              /\ shutdown_signal' = shutdown_signal
              /\ visitor_counter' = visitor_counter)]_vars

C21_Witness ==
    /\ stop_call = [context |-> "handler_no_hook", error |-> "TypeError"]
    /\ serverState = "Running"
    /\ ~shutdown_signal
    /\ visitor_counter > 0

\* The training and test values as the series itself gives them.
SeriesCut == (Len(melbourne_temp) * 7) \div 10
OrigTrain == [k \in 1..SeriesCut |-> melbourne_temp[k].temp]
TestVals ==
    [k \in 1..(Len(melbourne_temp) - SeriesCut) |->
        melbourne_temp[SeriesCut + k].temp]

\* C22: the k-th forecast comes from a model fitted on exactly the original
\* training values followed by the first k-1 test values, in order; the
\* value being forecast and the later ones are not in the fitted data.
C22_WalkForwardNoLookahead ==
    loop_pc \in {"loop", "done"} =>
        \A k \in 1..Len(predictions) :
            /\ predictions[k].after = OrigTrain \o SubSeq(TestVals, 1, k - 1)
            /\ Len(predictions[k].after) = SeriesCut + k - 1

C22_Witness ==
    /\ loop_pc = "loop"
    /\ Len(predictions) = 2
    /\ X_test[1] # X_test[2]
    /\ predictions[2].after = OrigTrain \o <<X_test[1]>>

\* C23: the loop never runs more than len(X_test) iterations and it ends;
\* when it has ended it has run len(X_test) iterations, predictions has one
\* entry per test point, paired with it in test order, and X_train is the
\* original training values followed by all test values.
C23_LoopTerminates ==
    /\ [](iLoop <= Len(X_test))
    /\ [](loop_pc = "done" =>
             /\ iLoop = Len(TestVals)
             /\ Len(predictions) = Len(TestVals)
             /\ error = [k \in 1..Len(TestVals) |->
                            <<TestVals[k], predictions[k]>>]
             /\ X_train = OrigTrain \o TestVals)
    /\ <>(loop_pc = "done")

C23_Witness ==
    /\ loop_pc = "done"
    /\ iLoop = 2
    /\ Len(predictions) = 2
    /\ Len(X_train) = Len(melbourne_temp)
    /\ X_test[1] # X_test[2]

\* C24: after the split X_train is the first n values and X_test the rest:
\* together, in that order, they are the whole series, their lengths add up
\* to its size, and every training row is dated before every test row.
C24_SplitPartitions ==
    loop_pc = "split" =>
        /\ X_train \o X_test = Values(melbourne_temp)
        /\ Len(X_train) + Len(X_test) = Len(melbourne_temp)
        /\ Len(X_train) = nSplit
        /\ X_train = [k \in 1..nSplit |-> melbourne_temp[k].temp]
        /\ Len(dates) = Len(X_test)
        /\ \A k \in 1..Len(X_train) : \A j \in 1..Len(dates) :
               melbourne_temp[k].date < dates[j]

C24_Witness ==
    /\ loop_pc = "split"
    /\ Len(X_train) = 3
    /\ Len(X_test) = 2
    /\ X_train[3] # X_test[1]
    /\ dates = <<4, 5>>

====
